---- MODULE Spec2Model ----
(***************************************************************************)
(* Model of the screen-score-select core of the Buffett-ish portfolio      *)
(* builder (src/src/test-buffet-portfolio.py): fetch_metrics, safe_float,  *)
(* passes_screen, score_row and build_portfolio.                           *)
(*                                                                         *)
(* Python floats are modelled by exact rationals n/d (rounding error is    *)
(* not modelled, so "equal within 1e-9" reads as "equal"), together with   *)
(* the two absent representations the code meets: None (a python None) and *)
(* NaN (what pandas stores for None in a float64 column).                  *)
(***************************************************************************)
EXTENDS Integers, Sequences, FiniteSets, TLC

VARIABLES
    universe,       \* argument: sleeve -> list of tickers
    base,           \* provider: the answer most tickers get
    odd_used,       \* provider: one ticker has already answered differently
    todo,           \* (sleeve, ticker) pairs still to fetch, in loop order
    rows,           \* the list "rows" of build_portfolio
    all_df,         \* the universe table (list of rows), once built
    screen,         \* argument: the ScreenConfig
    sleeve_weights, \* argument: ordered list of (sleeve, weight)
    picks_per_sleeve, \* argument: sleeve -> requested number of picks
    tie_order,      \* build: how sort_values("score") orders equal scores
    si,             \* index in sleeve_weights of the next sleeve to select
    picks,          \* the list "picks" (weights before renormalisation)
    picks_df,       \* the returned picks table
    pc,             \* position in build_portfolio
    error,          \* the exception build_portfolio raised, if any
    step,           \* run_with_dashboard: position in main
    returncode,     \* run_with_dashboard: result.returncode of the selection
    portfolio_files, \* run_with_dashboard: selected_portfolio_*.csv in /app
    latest_portfolio, \* run_with_dashboard: the CSV handed to the generator
    log,            \* run_with_dashboard: the external steps started so far
    exit_status     \* run_with_dashboard: the exit status of the process

vars == <<universe, base, odd_used, todo, rows, all_df, screen,
          sleeve_weights, picks_per_sleeve, tie_order, si, picks, picks_df,
          pc, error, step, returncode, portfolio_files, latest_portfolio,
          log, exit_status>>

\* the state of build_portfolio and the state of the runner
build == <<universe, base, odd_used, todo, rows, all_df, screen,
           sleeve_weights, picks_per_sleeve, tie_order, si, picks, picks_df,
           pc, error>>
runner == <<step, returncode, portfolio_files, latest_portfolio, log,
            exit_status>>

----------------------------------------------------------------------------
(* Bounds *)

\* largest pool (ETFs or stocks) of a sleeve in the universes explored
MaxPool == 7

----------------------------------------------------------------------------
(* Numbers *)

None == [t |-> "none", n |-> 0, d |-> 1]
NaN == [t |-> "nan", n |-> 0, d |-> 1]

Abs(x) == IF x < 0 THEN -x ELSE x

RECURSIVE GCD(_, _)
GCD(a, b) == IF b = 0 THEN a ELSE GCD(b, a % b)

\* the float n/d, in lowest terms with a positive denominator
Num(n, d) ==
    LET g == GCD(Abs(n), Abs(d))
        s == IF d < 0 THEN -1 ELSE 1
    IN [t |-> "num", n |-> (s * n) \div g, d |-> (s * d) \div g]

Int2(n) == Num(n, 1)
Zero == Num(0, 1)

IsNone(x) == x.t = "none"
IsNaN(x) == x.t = "nan"
IsNum(x) == x.t = "num"

\* float arithmetic; a NaN operand gives NaN
Add(a, b) == IF IsNaN(a) \/ IsNaN(b) THEN NaN
             ELSE Num(a.n * b.d + b.n * a.d, a.d * b.d)
Sub(a, b) == IF IsNaN(a) \/ IsNaN(b) THEN NaN
             ELSE Num(a.n * b.d - b.n * a.d, a.d * b.d)
Mul(a, b) == IF IsNaN(a) \/ IsNaN(b) THEN NaN
             ELSE Num(a.n * b.n, a.d * b.d)
\* a / b for b # 0 (the callers guard or handle b = 0 themselves)
Div(a, b) == IF IsNaN(a) \/ IsNaN(b) THEN NaN
             ELSE Num(a.n * b.d, a.d * b.n)

\* float comparisons; every comparison with NaN is False
GT(a, b) == IsNum(a) /\ IsNum(b) /\ a.n * b.d > b.n * a.d
LT(a, b) == IsNum(a) /\ IsNum(b) /\ a.n * b.d < b.n * a.d
GE(a, b) == IsNum(a) /\ IsNum(b) /\ a.n * b.d >= b.n * a.d
LE(a, b) == IsNum(a) /\ IsNum(b) /\ a.n * b.d <= b.n * a.d

\* repr() of a float with at most two decimals, as an f-string prints it
FmtFloat(x) ==
    LET ip == Abs(x.n) \div x.d
        f  == ((Abs(x.n) * 100) \div x.d) % 100
        fs == IF f % 10 = 0 THEN ToString(f \div 10)
              ELSE IF f < 10 THEN "0" \o ToString(f) ELSE ToString(f)
    IN (IF x.n < 0 THEN "-" ELSE "") \o ToString(ip) \o "." \o fs

\* str() of a python int
FmtInt(x) == ToString(x.n)

----------------------------------------------------------------------------
(* Configuration tables *)

SLEEVE_TARGET_WEIGHTS ==
    [anchor |-> Num(30, 100), value_hedge |-> Num(15, 100)]

\* max_pe is a python int, the others are floats
SLEEVE_RULES ==
    [anchor |->
        [max_pe |-> Int2(35), max_beta |-> Num(130, 100),
         w_pe |-> Num(12, 10), w_quality |-> Num(6, 10),
         w_balance |-> Num(4, 10), w_risk |-> Num(6, 10),
         w_div |-> Num(2, 10)],
     value_hedge |->
        [max_pe |-> Int2(25), max_beta |-> Num(125, 100),
         w_pe |-> Num(16, 10), w_quality |-> Num(10, 10),
         w_balance |-> Num(8, 10), w_risk |-> Num(6, 10),
         w_div |-> Num(8, 10)]]

\* sleeves that have an entry in SLEEVE_RULES
RuledSleeves == DOMAIN SLEEVE_RULES

\* a sleeve name that SLEEVE_RULES and PICKS_PER_SLEEVE do not know
Unruled == "other"

Sleeves == RuledSleeves \cup {Unruled}

PICKS_PER_SLEEVE == [anchor |-> 12, value_hedge |-> 12]

\* the ETFs and stocks the explored universes draw from, in list order
EtfList == <<"VOO", "VTI", "IVV", "ITOT", "SPY", "SCHD", "VTV", "IWD">>
StockList == <<"AAPL", "MSFT", "GOOGL", "AMZN", "BRK-B", "JPM", "V", "JNJ">>

ETF_TICKERS == {EtfList[i] : i \in 1..Len(EtfList)}

\* ScreenConfig: an absent optional threshold is None
ScreenConfig(pe_max, pe_min, rppm, dte_max, min_roe, allow) ==
    [pe_max |-> pe_max, pe_min |-> pe_min,
     require_positive_profit_margin |-> rppm,
     debt_to_equity_max |-> dte_max,
     min_return_on_equity |-> min_roe,
     allow_missing_fields |-> allow]

\* the module-level SCREEN
SCREEN == ScreenConfig(Num(30, 1), Num(5, 1), FALSE, None, None, TRUE)

\* ScreenConfig() with the dataclass defaults
ScreenDefault == ScreenConfig(Num(30, 1), Num(5, 1), TRUE, None, None, TRUE)

\* a strict configuration: every optional check on, missing fields rejected,
\* thresholds at values the provider reports (P/E 25, debt-to-equity 1,
\* ROE 25%)
ScreenStrict ==
    ScreenConfig(Num(25, 1), Num(5, 1), TRUE, Num(1, 1), Num(25, 100), FALSE)

ScreenConfigs == {SCREEN, ScreenDefault, ScreenStrict}

----------------------------------------------------------------------------
(* The metrics provider (yfinance) *)

InfoKeys == {"trailingPE", "forwardPE", "profitMargins", "returnOnEquity",
             "debtToEquity", "marketCap", "dividendYield", "beta",
             "priceToBook", "pegRatio", "revenueGrowth", "fiftyTwoWeekHigh"}

\* raw values of t.info: None, float nan, a number, a numeric string,
\* the string "nan", an unparseable string
RawNone == [t |-> "none", n |-> 0, d |-> 1]
RawNaN == [t |-> "nan", n |-> 0, d |-> 1]
RawNum(n, d) == [t |-> "num", n |-> n, d |-> d]
RawStr(n, d) == [t |-> "str", n |-> n, d |-> d]
RawNanStr == [t |-> "nanstr", n |-> 0, d |-> 1]
RawBadStr == [t |-> "badstr", n |-> 0, d |-> 1]

\* info.get(key)
Get(info, key) == IF key \in DOMAIN info THEN info[key] ELSE RawNone

\* a price history: it raises, or has len rows with these Close prices
HistRaise == [st |-> "raise", len |-> 0, first |-> NaN, m63 |-> NaN,
              last |-> NaN]
Hist(len, first, m63, last) ==
    [st |-> "ok", len |-> len, first |-> first, m63 |-> m63, last |-> last]

EmptyInfo == [k \in {} |-> RawNone]

\* one answer of the provider for a ticker
Answer(raises, info, hist) ==
    [info_raises |-> raises, info |-> info, hist |-> hist]

\* candidate A of the spec: P/E 18, beta 1.1, yield 3%, prices rising
AnsGood ==
    Answer(FALSE,
           ("trailingPE" :> RawNum(18, 1)) @@ ("beta" :> RawNum(11, 10))
           @@ ("dividendYield" :> RawNum(3, 100)),
           Hist(130, Num(100, 1), Num(110, 1), Num(121, 1)))

\* the fields of AnsGood with a lower P/E (the floor pe_min of every
\* configuration) and beta: passes every sleeve's ceilings and scores higher
AnsCheap ==
    Answer(FALSE,
           ("trailingPE" :> RawNum(5, 1)) @@ ("beta" :> RawNum(9, 10))
           @@ ("dividendYield" :> RawNum(4, 100)),
           Hist(130, Num(100, 1), Num(105, 1), Num(110, 1)))

\* no trailing P/E, forward P/E 80 (above every ceiling), beta at the anchor
\* ceiling, short history
AnsForward ==
    Answer(FALSE,
           ("forwardPE" :> RawNum(80, 1)) @@ ("beta" :> RawNum(13, 10))
           @@ ("priceToBook" :> RawNum(2, 1))
           @@ ("fiftyTwoWeekHigh" :> RawNum(125, 1)),
           Hist(61, Num(100, 1), NaN, Num(90, 1)))

\* unknown or delisted ticker: info is None or {}, history is empty
AnsEmpty == Answer(FALSE, EmptyInfo, Hist(0, NaN, NaN, NaN))

\* the provider call raises (network error, HTTP error)
AnsRaise == Answer(TRUE, EmptyInfo, HistRaise)

\* every fundamental present, P/E at the value_hedge ceiling, beta above the
\* anchor ceiling, no history
AnsRich ==
    Answer(FALSE,
           ("trailingPE" :> RawNum(25, 1)) @@ ("forwardPE" :> RawStr(15, 1))
           @@ ("profitMargins" :> RawNum(2, 10))
           @@ ("returnOnEquity" :> RawNum(25, 100))
           @@ ("debtToEquity" :> RawNum(1, 1))
           @@ ("marketCap" :> RawNum(1000, 1))
           @@ ("dividendYield" :> RawNum(0, 1))
           @@ ("beta" :> RawNum(15, 10))
           @@ ("priceToBook" :> RawNum(4, 1))
           @@ ("pegRatio" :> RawNum(2, 1))
           @@ ("revenueGrowth" :> RawNum(1, 10))
           @@ ("fiftyTwoWeekHigh" :> RawNum(100, 1)),
           HistRaise)

\* junk and distressed values: P/E 150, no profit, negative equity, bad text
AnsJunk ==
    Answer(FALSE,
           ("trailingPE" :> RawNum(150, 1)) @@ ("forwardPE" :> RawNanStr)
           @@ ("profitMargins" :> RawNum(0, 1))
           @@ ("returnOnEquity" :> RawNaN)
           @@ ("debtToEquity" :> RawNum(-1, 1))
           @@ ("beta" :> RawNum(0, 1))
           @@ ("priceToBook" :> RawBadStr)
           @@ ("revenueGrowth" :> RawNone)
           @@ ("fiftyTwoWeekHigh" :> RawNum(0, 1)),
           Hist(130, Num(0, 1), Num(50, 1), Num(40, 1)))

Answers ==
    {AnsGood, AnsCheap, AnsForward, AnsEmpty, AnsRaise, AnsRich, AnsJunk}

----------------------------------------------------------------------------
(* safe_float and fetch_metrics *)

\* mutant: a value that cannot be read is taken as 0
safe_float_ZeroDefault(x) ==
    CASE x.t = "none" -> Zero
      [] x.t = "nan" -> Zero
      [] x.t = "num" -> Num(x.n, x.d)
      [] x.t = "str" -> Num(x.n, x.d)
      [] x.t = "nanstr" -> NaN
      [] OTHER -> Zero

safe_float(x) ==
    CASE x.t = "none" -> None
      [] x.t = "nan" -> None
      [] x.t = "num" -> Num(x.n, x.d)
      [] x.t = "str" -> Num(x.n, x.d)
      [] x.t = "nanstr" -> NaN
      [] OTHER -> None

\* ((current - past) / past) * 100 if past > 0 else None
PctReturn(current, past) ==
    IF GT(past, Zero)
    THEN Mul(Div(Sub(current, past), past), Int2(100))
    ELSE None

\* (current / high) * 100 if high and high > 0 else None
Proximity(current, high) ==
    IF ~IsNone(high) /\ GT(high, Zero)
    THEN Mul(Div(current, high), Int2(100))
    ELSE None

\* the snapshot fetch_metrics returns when t.info does not raise
fetch_metrics(ticker, ans) ==
    LET info == ans.info
        hist == ans.hist
        has == hist.st = "ok" /\ hist.len > 60
        p3 == IF hist.len >= 63 THEN hist.m63 ELSE hist.first
    IN [ticker |-> ticker,
        trailingPE |-> safe_float(Get(info, "trailingPE")),
        forwardPE |-> safe_float(Get(info, "forwardPE")),
        profitMargins |-> safe_float(Get(info, "profitMargins")),
        returnOnEquity |-> safe_float(Get(info, "returnOnEquity")),
        debtToEquity |-> safe_float(Get(info, "debtToEquity")),
        marketCap |-> safe_float(Get(info, "marketCap")),
        dividendYield |-> safe_float(Get(info, "dividendYield")),
        beta |-> safe_float(Get(info, "beta")),
        priceToBook |-> safe_float(Get(info, "priceToBook")),
        pegRatio |-> safe_float(Get(info, "pegRatio")),
        revenueGrowth |-> safe_float(Get(info, "revenueGrowth")),
        return_3m |-> IF has THEN PctReturn(hist.last, p3) ELSE None,
        return_6m |-> IF has THEN PctReturn(hist.last, hist.first) ELSE None,
        proximity_52w |->
            IF has
            THEN Proximity(hist.last,
                           safe_float(Get(info, "fiftyTwoWeekHigh")))
            ELSE None]

\* the metric columns of the universe table
MetricFields == {"trailingPE", "forwardPE", "profitMargins",
                 "returnOnEquity", "debtToEquity", "marketCap",
                 "dividendYield", "beta", "priceToBook", "pegRatio",
                 "revenueGrowth", "return_3m", "return_6m", "proximity_52w"}

----------------------------------------------------------------------------
(* pd.DataFrame(rows) *)

\* a column is float64 as soon as one row holds a float in it, and then
\* every None of the column becomes NaN; a column of None only stays object
\* and keeps its None values
ColIsFloat(rs, f) == \E i \in 1..Len(rs) : ~IsNone(rs[i][f])

DataFrame(rs) ==
    LET floats == {f \in MetricFields : ColIsFloat(rs, f)}
    IN [i \in 1..Len(rs) |->
          [f \in DOMAIN rs[i] |->
              IF f \in floats /\ IsNone(rs[i][f]) THEN NaN ELSE rs[i][f]]]

----------------------------------------------------------------------------
(* passes_screen *)

\* mutant: a sleeve without rules borrows the rules of "anchor"
RuleGet_AnchorDefault(sleeve, key, default) ==
    IF sleeve \in DOMAIN SLEEVE_RULES THEN SLEEVE_RULES[sleeve][key]
    ELSE SLEEVE_RULES["anchor"][key]

\* rules.get(key, default) for rules = SLEEVE_RULES.get(sleeve, {})
RuleGet(sleeve, key, default) ==
    IF sleeve \in DOMAIN SLEEVE_RULES THEN SLEEVE_RULES[sleeve][key]
    ELSE default

\* the P/E both passes_screen and score_row use:
\* trailing if trailing is not None else forward
PeUsed(row) ==
    IF ~IsNone(row.trailingPE) THEN row.trailingPE ELSE row.forwardPE

\* the text of the P/E ceiling: an int from the rule table, else a float
FmtPeMax(sleeve, cfg) ==
    IF sleeve \in DOMAIN SLEEVE_RULES
    THEN FmtInt(SLEEVE_RULES[sleeve].max_pe)
    ELSE FmtFloat(cfg.pe_max)

\* mutant: the P/E bounds are exclusive
PeReasons_Exclusive(row, cfg) ==
    LET pe_max == RuleGet(row.sleeve, "max_pe", cfg.pe_max)
        pe_used == PeUsed(row)
    IN IF IsNone(pe_used)
       THEN IF ~cfg.allow_missing_fields
            THEN <<"missing PE (trailing/forward)">>
            ELSE <<>>
       ELSE (IF LE(pe_used, cfg.pe_min)
             THEN <<"PE<" \o FmtFloat(cfg.pe_min)>> ELSE <<>>)
            \o (IF GE(pe_used, pe_max)
                THEN <<"PE>" \o FmtPeMax(row.sleeve, cfg)>> ELSE <<>>)

PeReasons(row, cfg) ==
    LET pe_max == RuleGet(row.sleeve, "max_pe", cfg.pe_max)
        pe_used == PeUsed(row)
    IN IF IsNone(pe_used)
       THEN IF ~cfg.allow_missing_fields
            THEN <<"missing PE (trailing/forward)">>
            ELSE <<>>
       ELSE (IF LT(pe_used, cfg.pe_min)
             THEN <<"PE<" \o FmtFloat(cfg.pe_min)>> ELSE <<>>)
            \o (IF GT(pe_used, pe_max)
                THEN <<"PE>" \o FmtPeMax(row.sleeve, cfg)>> ELSE <<>>)

MarginReasons(row, cfg) ==
    LET pm == row.profitMargins
    IN IF cfg.require_positive_profit_margin
       THEN IF IsNone(pm) /\ ~cfg.allow_missing_fields
            THEN <<"missing profitMargins">>
            ELSE IF ~IsNone(pm) /\ LE(pm, Zero)
                 THEN <<"profitMargins<=0">>
                 ELSE <<>>
       ELSE <<>>

DebtReasons(row, cfg) ==
    LET dte == row.debtToEquity
    IN IF ~IsNone(cfg.debt_to_equity_max)
       THEN IF IsNone(dte) /\ ~cfg.allow_missing_fields
            THEN <<"missing debtToEquity">>
            ELSE IF ~IsNone(dte) /\ GT(dte, cfg.debt_to_equity_max)
                 THEN <<"debtToEquity>" \o FmtFloat(cfg.debt_to_equity_max)>>
                 ELSE <<>>
       ELSE <<>>

RoeReasons(row, cfg) ==
    LET roe == row.returnOnEquity
    IN IF ~IsNone(cfg.min_return_on_equity)
       THEN IF IsNone(roe) /\ ~cfg.allow_missing_fields
            THEN <<"missing returnOnEquity">>
            ELSE IF ~IsNone(roe) /\ LT(roe, cfg.min_return_on_equity)
                 THEN <<"returnOnEquity<"
                        \o FmtFloat(cfg.min_return_on_equity)>>
                 ELSE <<>>
       ELSE <<>>

BetaReasons(row, cfg) ==
    LET beta_max == RuleGet(row.sleeve, "max_beta", None)
        b == row.beta
    IN IF ~IsNone(beta_max)
       THEN IF IsNone(b)
            THEN IF ~cfg.allow_missing_fields
                 THEN <<"missing beta">> ELSE <<>>
            ELSE IF GT(b, beta_max)
                 THEN <<"beta>" \o FmtFloat(beta_max)>> ELSE <<>>
       ELSE <<>>

\* the list "reasons" passes_screen returns
ScreenReasons(row, cfg) ==
    PeReasons(row, cfg) \o MarginReasons(row, cfg) \o DebtReasons(row, cfg)
    \o RoeReasons(row, cfg) \o BetaReasons(row, cfg)

\* mutant: the pass flag looks at the P/E reasons only
passes_screen_PeOnly(row, cfg) ==
    [passed |-> Len(PeReasons(row, cfg)) = 0,
     reasons |-> ScreenReasons(row, cfg)]

\* passes_screen: (len(reasons) == 0, reasons)
passes_screen(row, cfg) ==
    LET reasons == ScreenReasons(row, cfg)
    IN [passed |-> Len(reasons) = 0, reasons |-> reasons]

\* "; ".join(reasons)
RECURSIVE Join(_)
Join(reasons) ==
    IF Len(reasons) = 0 THEN ""
    ELSE IF Len(reasons) = 1 THEN reasons[1]
    ELSE reasons[1] \o "; " \o Join(Tail(reasons))

----------------------------------------------------------------------------
(* score_row *)

\* mutant: the superseded scorer's flat penalty for a missing P/E
PeTerm_MissingPenalty(row) ==
    LET pe == PeUsed(row)
        w_pe == RuleGet(row.sleeve, "w_pe", Num(10, 10))
    IN IF ~IsNone(pe) /\ GT(pe, Zero)
       THEN Mul(Mul(w_pe, Div(Int2(50), pe)), Num(4, 10))
       ELSE Num(-5, 10)

\* w_pe * (50.0 / pe) * 0.4
PeTerm(row) ==
    LET pe == PeUsed(row)
        w_pe == RuleGet(row.sleeve, "w_pe", Num(10, 10))
    IN IF ~IsNone(pe) /\ GT(pe, Zero)
       THEN Mul(Mul(w_pe, Div(Int2(50), pe)), Num(4, 10))
       ELSE Zero

\* (10.0 / pb) * 0.4
PbTerm(row) ==
    LET pb == row.priceToBook
    IN IF ~IsNone(pb) /\ GT(pb, Zero)
       THEN Mul(Div(Int2(10), pb), Num(4, 10))
       ELSE Zero

\* w_div * (100.0 * div) * 0.4
DivTerm(row) ==
    LET div == row.dividendYield
        w_div == RuleGet(row.sleeve, "w_div", Num(1, 10))
    IN IF ~IsNone(div) /\ GT(div, Zero)
       THEN Mul(Mul(w_div, Mul(Int2(100), div)), Num(4, 10))
       ELSE Zero

\* (x / scale) * 0.3 for a momentum field that is not None
MomentumTerm(x, scale) ==
    IF ~IsNone(x) THEN Mul(Div(x, Int2(scale)), Num(3, 10)) ELSE Zero

\* w_quality * (5.0 * x) * 0.2 for ROE and profit margin
QualityTerm(row, x) ==
    LET w_quality == RuleGet(row.sleeve, "w_quality", Num(7, 10))
    IN IF ~IsNone(x) /\ GT(x, Zero)
       THEN Mul(Mul(w_quality, Mul(Int2(5), x)), Num(2, 10))
       ELSE Zero

\* (rev_growth * 10.0) * 0.2
GrowthTerm(row) ==
    LET g == row.revenueGrowth
    IN IF ~IsNone(g) /\ GT(g, Zero)
       THEN Mul(Mul(g, Int2(10)), Num(2, 10))
       ELSE Zero

\* w_risk * (2.0 / beta) * 0.1, else the flat penalty -0.1
BetaTerm(row) ==
    LET beta == row.beta
        w_risk == RuleGet(row.sleeve, "w_risk", Num(5, 10))
    IN IF ~IsNone(beta) /\ GT(beta, Zero)
       THEN Mul(Mul(w_risk, Div(Int2(2), beta)), Num(1, 10))
       ELSE Num(-1, 10)

\* w_balance * (5.0 / (1.0 + dte)) * 0.1
DebtTerm(row) ==
    LET dte == row.debtToEquity
        w_balance == RuleGet(row.sleeve, "w_balance", Num(5, 10))
    IN IF ~IsNone(dte) /\ GE(dte, Zero)
       THEN Mul(Mul(w_balance, Div(Int2(5), Add(Int2(1), dte))), Num(1, 10))
       ELSE Zero

score_row(row) ==
    LET value == Add(Add(PeTerm(row), PbTerm(row)), DivTerm(row))
        momentum == Add(Add(MomentumTerm(row.return_3m, 10),
                            MomentumTerm(row.return_6m, 20)),
                        MomentumTerm(row.proximity_52w, 20))
        quality == Add(Add(QualityTerm(row, row.returnOnEquity),
                           QualityTerm(row, row.profitMargins)),
                       GrowthTerm(row))
        risk == Add(BetaTerm(row), DebtTerm(row))
    IN Add(Add(Add(value, momentum), quality), risk)

----------------------------------------------------------------------------
(* Arguments of build_portfolio *)

target_etfs == 6
target_stocks == 6

\* the first ne ETFs followed by the first ns stocks
Mix(ne, ns) == SubSeq(EtfList, 1, ne) \o SubSeq(StockList, 1, ns)

\* the order of universe.items()
UniverseOrder == <<"anchor", "value_hedge", "other">>

MakeUniverse(a, v, o) == [anchor |-> a, value_hedge |-> v, other |-> o]

\* universes explored: pools above, at and below the per-pool targets,
\* a ticker shared by two sleeves, a repeated ticker, empty sleeves
Universes ==
    { MakeUniverse(Mix(MaxPool, MaxPool), <<>>, <<>>),
      MakeUniverse(Mix(target_etfs - 1, target_stocks + 1), <<>>, <<>>),
      MakeUniverse(Mix(target_etfs, target_stocks), Mix(1, 1), <<>>),
      MakeUniverse(Mix(1, 1), Mix(1, 1), Mix(0, 1)),
      MakeUniverse(Mix(2, 1), <<>>, Mix(1, 0)),
      MakeUniverse(Mix(0, 2) \o Mix(0, 1), Mix(1, 0), <<>>),
      MakeUniverse(<<>>, <<>>, <<>>) }

\* the (sleeve, ticker) pairs in the order the fetch loop visits them
RECURSIVE Flatten(_, _)
Flatten(u, k) ==
    IF k > Len(UniverseOrder) THEN <<>>
    ELSE [i \in 1..Len(u[UniverseOrder[k]]) |->
            [sleeve |-> UniverseOrder[k], ticker |-> u[UniverseOrder[k]][i]]]
         \o Flatten(u, k + 1)

\* weights explored for a sleeve: the configured one (0.15 for a sleeve
\* SLEEVE_TARGET_WEIGHTS does not name) and zero
Weights(s) ==
    {Zero, IF s \in DOMAIN SLEEVE_TARGET_WEIGHTS
           THEN SLEEVE_TARGET_WEIGHTS[s] ELSE Num(15, 100)}

Item(s, w) == [sleeve |-> s, w |-> w]

\* sleeve_weights.items() for the dicts explored
SleeveWeightArgs ==
    {<<>>}
    \cup {<<Item("anchor", w)>> : w \in Weights("anchor")}
    \cup {<<Item("anchor", w1), Item("value_hedge", w2)>> :
            w1 \in Weights("anchor"), w2 \in Weights("value_hedge")}
    \cup {<<Item("other", w1), Item("anchor", w2)>> :
            w1 \in Weights("other") \ {Zero}, w2 \in Weights("anchor") \ {Zero}}

\* df.sort_values("score", ascending=False) on one column runs numpy's
\* argsort with kind="quicksort", which is not a stable sort: rows of equal
\* score (and the NaN rows placed last) come out in an order the numpy build
\* decides.  Two outcomes are explored: equal scores keep their order, equal
\* scores come out in the opposite order (tie_order "kept" or "reversed").

ConfiguredOne == <<Item("anchor", SLEEVE_TARGET_WEIGHTS["anchor"])>>

ConfiguredTwo ==
    <<Item("anchor", SLEEVE_TARGET_WEIGHTS["anchor"]),
      Item("value_hedge", SLEEVE_TARGET_WEIGHTS["value_hedge"])>>

\* the arguments of the selection loop and the build's tie order as explored:
\* picks_per_sleeve is the table main passes with every sleeve_weights above,
\* and a request for four picks per sleeve with the configured weights of two
\* sleeves; ties come out reversed with the configured weights of one sleeve
\* and of two
SelectionArgs ==
    {[sleeve_weights |-> sw, picks_per_sleeve |-> PICKS_PER_SLEEVE,
      tie_order |-> "kept"] : sw \in SleeveWeightArgs}
    \cup {[sleeve_weights |-> ConfiguredTwo,
           picks_per_sleeve |-> [anchor |-> 4, value_hedge |-> 4],
           tie_order |-> "kept"]}
    \cup {[sleeve_weights |-> sw, picks_per_sleeve |-> PICKS_PER_SLEEVE,
           tie_order |-> "reversed"] : sw \in {ConfiguredOne, ConfiguredTwo}}

NoError == [kind |-> "none", msg |-> "", names |-> {}]

\* an exception: its type, its message, the sleeves the message names
Exception(kind, msg) == [kind |-> kind, msg |-> msg, names |-> {}]

----------------------------------------------------------------------------
(* sort_values and selection *)

\* mutant: the sort is ascending
ScoreBefore_Ascending(x, y) ==
    \/ IsNum(x.score) /\ IsNaN(y.score)
    \/ LT(x.score, y.score)

\* x sorts strictly before y: higher score first, NaN scores last
ScoreBefore(x, y) ==
    \/ IsNum(x.score) /\ IsNaN(y.score)
    \/ GT(x.score, y.score)

\* insert x behind every element it does not strictly precede
RECURSIVE InsertByScore(_, _)
InsertByScore(sorted, x) ==
    IF Len(sorted) = 0 THEN <<x>>
    ELSE IF ScoreBefore(x, Head(sorted)) THEN <<x>> \o sorted
    ELSE <<Head(sorted)>> \o InsertByScore(Tail(sorted), x)

\* df.sort_values("score", ascending=False): ties keep their order
RECURSIVE SortByScore(_)
SortByScore(df) ==
    IF Len(df) = 0 THEN <<>>
    ELSE InsertByScore(SortByScore(SubSeq(df, 1, Len(df) - 1)), df[Len(df)])

\* the pool sort of the build: stable, or equal scores in the opposite order
ReverseRows(df) == [i \in 1..Len(df) |-> df[Len(df) + 1 - i]]

SortPool(df) ==
    IF tie_order = "reversed" THEN SortByScore(ReverseRows(df))
    ELSE SortByScore(df)

\* df.head(k)
HeadK(df, k) == SubSeq(df, 1, IF Len(df) < k THEN Len(df) ELSE k)

IsEtf(r) == r.ticker \in ETF_TICKERS

\* mutant: no fallback to the whole pool when too few rows pass
PoolPicks_NoFallback(pool, target) ==
    HeadK(SortPool(SelectSeq(pool, LAMBDA r : r.passes_screen)), target)

\* mutant: head(target) is taken before the sort
PoolPicks_HeadFirst(pool, target) ==
    LET passing == SortPool(HeadK(SelectSeq(pool,
                                               LAMBDA r : r.passes_screen),
                                     target))
    IN IF Len(passing) < target
       THEN SortPool(HeadK(pool, target))
       ELSE passing

\* mutant: when too few rows pass, the passing rows are kept and topped up
\* with the best failing rows
PoolPicks_TopUp(pool, target) ==
    HeadK(SortPool(SelectSeq(pool, LAMBDA r : r.passes_screen))
          \o SortPool(SelectSeq(pool, LAMBDA r : ~r.passes_screen)),
          target)

\* mutant: the pool is ranked by score alone, the screening result ignored
PoolPicks_ScoreOnly(pool, target) == HeadK(SortPool(pool), target)

\* the picks of one pool: the best passing rows, or the best rows of the
\* whole pool when fewer than target pass
PoolPicks(pool, target) ==
    LET passing == HeadK(SortPool(SelectSeq(pool, LAMBDA r : r.passes_screen)),
                         target)
    IN IF Len(passing) < target
       THEN HeadK(SortPool(pool), target)
       ELSE passing

SleeveDf(df, sleeve) == SelectSeq(df, LAMBDA r : r.sleeve = sleeve)

EtfPool(df, sleeve) == SelectSeq(SleeveDf(df, sleeve), IsEtf)
StockPool(df, sleeve) == SelectSeq(SleeveDf(df, sleeve), LAMBDA r : ~IsEtf(r))

\* mutant: the stock pool is asked for the picks the ETF pool left unfilled
SleevePicks_Backfill(df, sleeve) ==
    LET etf_df == PoolPicks(EtfPool(df, sleeve), target_etfs)
    IN etf_df \o PoolPicks(StockPool(df, sleeve),
                           target_stocks + (target_etfs - Len(etf_df)))

\* pd.concat([etf_df, stock_df])
SleevePicks(df, sleeve) ==
    PoolPicks(EtfPool(df, sleeve), target_etfs)
    \o PoolPicks(StockPool(df, sleeve), target_stocks)

\* mutant: the weight is split over the configured pick count, not over the
\* rows actually selected
PerPickWeight_ByTarget(w, n) == Div(w, Int2(target_etfs + target_stocks))

\* w / len(sleeve_picks), for a non-empty selection
PerPickWeight(w, n) == Div(w, Int2(n))

Pick(r, sleeve, weight) ==
    [sleeve |-> sleeve, ticker |-> r.ticker, target_weight |-> weight,
     pe_used |-> r.pe_used, trailingPE |-> r.trailingPE,
     forwardPE |-> r.forwardPE, dividendYield |-> r.dividendYield,
     beta |-> r.beta, score |-> r.score,
     passes_screen |-> r.passes_screen, fail_reasons |-> r.fail_reasons]

\* series.sum()
RECURSIVE SumWeights(_)
SumWeights(ps) ==
    IF Len(ps) = 0 THEN Zero
    ELSE Add(Head(ps).target_weight, SumWeights(Tail(ps)))

\* series / total, elementwise: numpy gives NaN for 0/0 and raises nothing
\* (the weights explored are not negative, so a zero total has zero terms)
DivideBy(x, total) ==
    IF IsNum(total) /\ total.n = 0 THEN NaN ELSE Div(x, total)

\* trailingPE.fillna(forwardPE): None and NaN are both filled
FillNa(x, y) == IF IsNone(x) \/ IsNaN(x) THEN y ELSE x

\* the screening and scoring columns added to one row of the table
Scored(r, cfg) ==
    LET res == passes_screen(r, cfg)
    IN [f \in DOMAIN r \cup {"passes_screen", "fail_reasons", "score",
                             "pe_used"} |->
          CASE f = "passes_screen" -> res.passed
            [] f = "fail_reasons" -> Join(res.reasons)
            [] f = "score" -> score_row(r)
            [] f = "pe_used" -> FillNa(r.trailingPE, r.forwardPE)
            [] OTHER -> r[f]]

\* sort_values(["sleeve", ...]): the sleeves of a table in ascending order
SleeveRank(s) == CASE s = "anchor" -> 1 [] s = "other" -> 2 [] OTHER -> 3

\* picks_df.sort_values(["sleeve", "target_weight"], [True, False]):
\* a stable sort, and the picks of a sleeve share one weight
SortPicks(ps) ==
    SelectSeq(ps, LAMBDA p : SleeveRank(p.sleeve) = 1)
    \o SelectSeq(ps, LAMBDA p : SleeveRank(p.sleeve) = 2)
    \o SelectSeq(ps, LAMBDA p : SleeveRank(p.sleeve) = 3)

\* all_df.sort_values(["sleeve", "score"], [True, False])
SortTable(df) ==
    SortByScore(SelectSeq(df, LAMBDA r : SleeveRank(r.sleeve) = 1))
    \o SortByScore(SelectSeq(df, LAMBDA r : SleeveRank(r.sleeve) = 2))
    \o SortByScore(SelectSeq(df, LAMBDA r : SleeveRank(r.sleeve) = 3))

----------------------------------------------------------------------------
(* run_with_dashboard.py *)

\* a process that has not exited, a subprocess that has not returned
Running == -1

\* number of dated selected_portfolio CSVs that may lie in /app
MaxFiles == 4

\* the CSVs by their timestamps; sorted() puts the latest last
Stamps == 1..MaxFiles

\* return codes of the selection subprocess: success, an uncaught exception,
\* another failure
ReturnCodes == {0, 1, 2}

Latest(files) == CHOOSE x \in files : \A y \in files : y <= x

\* sys.exit(n), or an uncaught exception (status 1)
Exit(n) ==
    /\ step' = "exited"
    /\ exit_status' = n

\* the runner before main starts
RunnerStart ==
    /\ step = "start"
    /\ returncode = Running
    /\ portfolio_files = {}
    /\ latest_portfolio = 0
    /\ log = <<>>
    /\ exit_status = Running

\* run_portfolio_selection: the subprocess runs to its end and leaves the
\* CSVs of this and of earlier runs in /app; a non-zero return code exits
run_portfolio_selection ==
    /\ step = "start"
    /\ \E rc \in ReturnCodes, files \in SUBSET Stamps :
          /\ returncode' = rc
          /\ portfolio_files' = files
          /\ IF rc # 0 THEN Exit(1)
             ELSE step' = "find" /\ UNCHANGED exit_status
    /\ log' = Append(log, "selection")
    /\ UNCHANGED latest_portfolio
    /\ UNCHANGED build

\* generate_and_upload_dashboard, lines 39-45: the latest CSV, or exit 1
find_portfolio ==
    /\ step = "find"
    /\ IF portfolio_files = {}
       THEN Exit(1) /\ UNCHANGED latest_portfolio
       ELSE /\ latest_portfolio' = Latest(portfolio_files)
            /\ step' = "generate"
            /\ UNCHANGED exit_status
    /\ UNCHANGED <<returncode, portfolio_files, log>>
    /\ UNCHANGED build

\* lines 49-52: the generator subprocess with check=True; its failure raises
\* CalledProcessError, which nothing catches
generate_dashboard ==
    /\ step = "generate"
    /\ log' = Append(log, "generate")
    /\ \E ok \in BOOLEAN :
          IF ok THEN step' = "upload" /\ UNCHANGED exit_status ELSE Exit(1)
    /\ UNCHANGED <<returncode, portfolio_files, latest_portfolio>>
    /\ UNCHANGED build

\* lines 56-71: put_object returns, or raises and nothing catches it
upload_dashboard ==
    /\ step = "upload"
    /\ \E ok \in BOOLEAN :
          IF ok
          THEN /\ log' = log \o <<"put_object", "uploaded">>
               /\ step' = "email"
               /\ UNCHANGED exit_status
          ELSE /\ log' = Append(log, "put_object")
               /\ Exit(1)
    /\ UNCHANGED <<returncode, portfolio_files, latest_portfolio>>
    /\ UNCHANGED build

\* mutant: the exception of send_email is not caught
send_email_with_dashboard_Uncaught ==
    /\ step = "email"
    /\ \E ok \in BOOLEAN :
          IF ok
          THEN /\ log' = log \o <<"send_email", "sent">>
               /\ step' = "finish"
               /\ UNCHANGED exit_status
          ELSE /\ log' = Append(log, "send_email")
               /\ Exit(1)
    /\ UNCHANGED <<returncode, portfolio_files, latest_portfolio>>
    /\ UNCHANGED build

\* send_email_with_dashboard: ses.send_email returns, or raises and the
\* except clause prints the failure
send_email_with_dashboard ==
    /\ step = "email"
    /\ \E ok \in BOOLEAN :
          log' = IF ok THEN log \o <<"send_email", "sent">>
                 ELSE Append(log, "send_email")
    /\ step' = "finish"
    /\ UNCHANGED <<returncode, portfolio_files, latest_portfolio, exit_status>>
    /\ UNCHANGED build

\* main returns after its last print: the interpreter exits with status 0
finish ==
    /\ step = "finish"
    /\ Exit(0)
    /\ UNCHANGED <<returncode, portfolio_files, latest_portfolio, log>>
    /\ UNCHANGED build

----------------------------------------------------------------------------
(* build_portfolio *)

Init ==
    /\ universe \in Universes
    /\ base \in Answers
    /\ odd_used = FALSE
    /\ todo = Flatten(universe, 1)
    /\ rows = <<>>
    /\ all_df = <<>>
    /\ screen \in ScreenConfigs
    /\ sleeve_weights = <<>>
    /\ picks_per_sleeve = <<>>
    /\ tie_order = "kept"
    /\ si = 1
    /\ picks = <<>>
    /\ picks_df = <<>>
    /\ pc = "fetch"
    /\ error = NoError
    /\ RunnerStart

\* the answers the provider may give next: one ticker at most departs from
\* the answer the others get
NextAnswers == IF odd_used THEN {base} ELSE Answers

\* one iteration of the fetch loop: fetch_metrics returns a snapshot
FetchOk ==
    /\ pc = "fetch"
    /\ todo # <<>>
    /\ \E ans \in NextAnswers :
        /\ ~ans.info_raises
        /\ rows' = Append(rows,
                [f \in MetricFields \cup {"ticker", "sleeve"} |->
                    IF f = "sleeve" THEN Head(todo).sleeve
                    ELSE fetch_metrics(Head(todo).ticker, ans)[f]])
        /\ odd_used' = (odd_used \/ ans # base)
    /\ todo' = Tail(todo)
    /\ UNCHANGED <<picks_per_sleeve, tie_order>>
    /\ UNCHANGED runner
    /\ UNCHANGED <<universe, base, all_df, screen, sleeve_weights, si, picks,
                   picks_df, pc, error>>

\* one iteration of the fetch loop: t.info raises inside fetch_metrics and
\* nothing in fetch_metrics or build_portfolio catches it
FetchRaise ==
    /\ pc = "fetch"
    /\ todo # <<>>
    /\ \E ans \in NextAnswers :
        /\ ans.info_raises
        /\ odd_used' = (odd_used \/ ans # base)
    /\ pc' = "error"
    /\ error' = Exception("ProviderError", "")
    /\ UNCHANGED <<picks_per_sleeve, tie_order>>
    /\ UNCHANGED runner
    /\ UNCHANGED <<universe, base, todo, rows, all_df, screen,
                   sleeve_weights, si, picks, picks_df>>

\* all_df = pd.DataFrame(rows), then the screen + score loop and the four
\* added columns, up to the entry of the loop over sleeve_weights.items();
\* an empty table has no "trailingPE" column.  The arguments
\* sleeve_weights, picks_per_sleeve and the tie order of the pool sorts are
\* of no use before that loop entry, and the model draws them there.
ScreenAndScore ==
    /\ pc = "fetch"
    /\ todo = <<>>
    /\ IF rows = <<>>
       THEN /\ pc' = "error"
            /\ error' = Exception("KeyError", "trailingPE")
            /\ UNCHANGED <<all_df, sleeve_weights, picks_per_sleeve,
                           tie_order>>
       ELSE /\ all_df' = LET df == DataFrame(rows)
                         IN [i \in 1..Len(df) |-> Scored(df[i], screen)]
            /\ \E args \in SelectionArgs :
                  /\ sleeve_weights' = args.sleeve_weights
                  /\ picks_per_sleeve' = args.picks_per_sleeve
                  /\ tie_order' = args.tie_order
            /\ pc' = "select"
            /\ UNCHANGED error
    /\ UNCHANGED <<universe, base, odd_used, todo, rows, screen,
                   si, picks, picks_df>>
    /\ UNCHANGED runner

\* one iteration of the loop over sleeve_weights.items()
SelectSleeve ==
    /\ pc = "select"
    /\ si <= Len(sleeve_weights)
    /\ LET sleeve == sleeve_weights[si].sleeve
           w == sleeve_weights[si].w
           sleeve_picks == SleevePicks(all_df, sleeve)
       IN IF Len(sleeve_picks) = 0
          THEN /\ pc' = "error"
               /\ error' = Exception("ZeroDivisionError",
                                     "float division by zero")
               /\ UNCHANGED <<si, picks>>
          ELSE /\ picks' = LET per_pick_weight ==
                                    PerPickWeight(w, Len(sleeve_picks))
                           IN picks \o
                              [i \in 1..Len(sleeve_picks) |->
                                  Pick(sleeve_picks[i], sleeve,
                                       per_pick_weight)]
               /\ si' = si + 1
               /\ UNCHANGED <<pc, error>>
    /\ UNCHANGED <<picks_per_sleeve, tie_order>>
    /\ UNCHANGED runner
    /\ UNCHANGED <<universe, base, odd_used, todo, rows, all_df, screen,
                   sleeve_weights, picks_df>>

\* picks_df = pd.DataFrame(picks), the renormalisation and the two sorts;
\* an empty picks table has no "target_weight" column
Normalize ==
    /\ pc = "select"
    /\ si > Len(sleeve_weights)
    /\ IF picks = <<>>
       THEN /\ pc' = "error"
            /\ error' = Exception("KeyError", "target_weight")
            /\ UNCHANGED <<picks_df, all_df>>
       ELSE /\ picks_df' = LET total == SumWeights(picks)
                           IN SortPicks(
                                [i \in 1..Len(picks) |->
                                    [picks[i] EXCEPT !.target_weight =
                                        DivideBy(@, total)]])
            /\ all_df' = SortTable(all_df)
            /\ pc' = "done"
            /\ UNCHANGED error
    /\ UNCHANGED <<picks_per_sleeve, tie_order>>
    /\ UNCHANGED runner
    /\ UNCHANGED <<universe, base, odd_used, todo, rows, screen,
                   sleeve_weights, si, picks>>

Next == FetchOk \/ FetchRaise \/ ScreenAndScore \/ SelectSleeve \/ Normalize

Spec == Init /\ [][Next]_vars

\* the runner on its own: the selection is a subprocess, seen through its
\* return code and the files it leaves, so build_portfolio's state stands
\* still at one start state
RunnerInit ==
    /\ universe = MakeUniverse(<<>>, <<>>, <<>>)
    /\ base = AnsGood
    /\ odd_used = FALSE
    /\ todo = Flatten(universe, 1)
    /\ rows = <<>>
    /\ all_df = <<>>
    /\ screen = SCREEN
    /\ sleeve_weights = <<>>
    /\ picks_per_sleeve = <<>>
    /\ tie_order = "kept"
    /\ si = 1
    /\ picks = <<>>
    /\ picks_df = <<>>
    /\ pc = "fetch"
    /\ error = NoError
    /\ RunnerStart

RunnerNext ==
    \/ run_portfolio_selection
    \/ find_portfolio
    \/ generate_dashboard
    \/ upload_dashboard
    \/ send_email_with_dashboard
    \/ finish

RunnerSpec == RunnerInit /\ [][RunnerNext]_vars

----------------------------------------------------------------------------
(* Properties *)

\* the picks of one sleeve in a picks list
PicksOf(ps, sleeve) == SelectSeq(ps, LAMBDA p : p.sleeve = sleeve)

\* the sleeves of sleeve_weights whose selection has completed
Selected == {sleeve_weights[k].sleeve : k \in 1..(si - 1)}

\* the configured weight of a sleeve of sleeve_weights
WeightOf(sleeve) ==
    sleeve_weights[CHOOSE k \in 1..Len(sleeve_weights) :
                        sleeve_weights[k].sleeve = sleeve].w

\* a field is absent: None in a snapshot or an object column, NaN in a
\* float column
Absent(x) == IsNone(x) \/ IsNaN(x)

AllAbsent(r) == \A f \in MetricFields : Absent(r[f])

\* C1: whenever build_portfolio returns, the target weights of all returned
\* picks sum to 1.0
C1_WeightsSumToOne ==
    pc = "done" => SumWeights(picks_df) = Int2(1)

\* C2: for every sleeve that yielded at least one pick, the target weights of
\* its picks before the global renormalisation sum to the sleeve's weight
C2_SleeveSum ==
    \A s \in Selected :
        Len(PicksOf(picks, s)) >= 1
            => SumWeights(PicksOf(picks, s)) = WeightOf(s)

\* two sleeves with different numbers of picks, both with a non-zero weight,
\* have been selected and the run has returned
C2_Witness ==
    /\ pc = "done"
    /\ \E s1 \in Selected, s2 \in Selected :
        /\ Len(PicksOf(picks, s1)) = target_etfs + target_stocks
        /\ Len(PicksOf(picks, s2)) = 2
        /\ WeightOf(s1) # Zero
        /\ WeightOf(s2) # Zero

\* num_picks = PICKS_PER_SLEEVE.get(sleeve, 12)
PicksRequested(sleeve) ==
    IF sleeve \in DOMAIN PICKS_PER_SLEEVE THEN PICKS_PER_SLEEVE[sleeve]
    ELSE 12

\* C3 as stated: a selected sleeve with at least its requested pick count of
\* candidates, whatever their split between ETFs and stocks, has at least the
\* requested number of picks
C3_FilledFromTotal ==
    \A s \in Selected :
        Len(SleeveDf(all_df, s)) >= PicksRequested(s)
            => Len(PicksOf(picks, s)) >= PicksRequested(s)

\* C3 as amended: a selected sleeve with at least target_etfs ETF candidates
\* and at least target_stocks stock candidates, passing or failing, has at
\* least the requested number of picks
C3_FilledFromPools ==
    \A s \in Selected :
        (/\ Len(EtfPool(all_df, s)) >= target_etfs
         /\ Len(StockPool(all_df, s)) >= target_stocks)
            => Len(PicksOf(picks, s)) >= PicksRequested(s)

\* a sleeve with both pools at or above target was filled through the
\* fallback: it has its requested picks and one of them failed screening
C3_Witness ==
    \E s \in Selected :
        /\ Len(EtfPool(all_df, s)) >= target_etfs
        /\ Len(StockPool(all_df, s)) >= target_stocks
        /\ Len(PicksOf(picks, s)) = PicksRequested(s)
        /\ \E i \in 1..Len(picks) :
            picks[i].sleeve = s /\ ~picks[i].passes_screen

\* C4: a provider failure for one ticker does not abort build_portfolio
C4_ProviderFailureTolerated ==
    ~(pc = "error" /\ error.kind = "ProviderError")

\* C5: selecting a sleeve of sleeve_weights that has no candidate fails with
\* an error that names the sleeve, and build_portfolio never returns when a
\* sleeve of sleeve_weights has no candidate
C5_EmptySleeveNamed ==
    /\ (/\ pc = "error"
        /\ all_df # <<>>
        /\ si <= Len(sleeve_weights)
        /\ Len(SleeveDf(all_df, sleeve_weights[si].sleeve)) = 0)
            => sleeve_weights[si].sleeve \in error.names
    /\ pc = "done"
            => \A k \in 1..Len(sleeve_weights) :
                  Len(SleeveDf(all_df, sleeve_weights[k].sleeve)) > 0

\* C6: build_portfolio never returns when the weights before renormalisation
\* total zero, so no returned weight is NaN
C6_ZeroTotalIsFatal ==
    pc = "done"
        => /\ SumWeights(picks) # Zero
           /\ \A i \in 1..Len(picks_df) : IsNum(picks_df[i].target_weight)

\* C7: every score in the universe table is a finite number
C7_ScoreFinite ==
    \A i \in 1..Len(all_df) : IsNum(all_df[i].score)

\* the sleeve's w_risk, as score_row resolves it
RiskWeight(sleeve) == RuleGet(sleeve, "w_risk", Num(5, 10))

C9_PassIffNoReasons ==
    \A i \in 1..Len(all_df) :
        /\ all_df[i].passes_screen <=> all_df[i].fail_reasons = ""
        /\ all_df[i].passes_screen
              <=> ScreenReasons(all_df[i], screen) = <<>>

\* the table holds a passing row and a row rejected for two reasons or more
C9_Witness ==
    \E i \in 1..Len(all_df), j \in 1..Len(all_df) :
        /\ all_df[i].passes_screen
        /\ ~all_df[j].passes_screen
        /\ Len(ScreenReasons(all_df[j], screen)) >= 2

\* the P/E ceiling passes_screen applies to a row
PeCeiling(r) == RuleGet(r.sleeve, "max_pe", screen.pe_max)

\* C10: a row with absent trailing P/E and a forward P/E above the ceiling is
\* rejected with a "PE>" reason, and its forward P/E feeds the inverse-P/E
\* score term
C10_ForwardPeUsed ==
    \A i \in 1..Len(all_df) :
        (Absent(all_df[i].trailingPE)
         /\ GT(all_df[i].forwardPE, PeCeiling(all_df[i])))
            => /\ ~all_df[i].passes_screen
               /\ \E k \in 1..Len(ScreenReasons(all_df[i], screen)) :
                    ScreenReasons(all_df[i], screen)[k]
                        = "PE>" \o FmtPeMax(all_df[i].sleeve, screen)
               /\ PeTerm(all_df[i]) =
                    Mul(Mul(RuleGet(all_df[i].sleeve, "w_pe", Num(10, 10)),
                            Div(Int2(50), all_df[i].forwardPE)),
                        Num(4, 10))

\* the reasons one screening check owes for an absent input: one "missing"
\* reason when absent inputs are refused, none when they are allowed
MissingReasons(text) ==
    IF screen.allow_missing_fields THEN <<>> ELSE <<text>>

\* C11: for each enabled screening check (P/E, profit margin, debt-to-equity,
\* return on equity, beta) an absent input adds exactly one "missing ..."
\* reason when allow_missing_fields is false and no reason when it is true,
\* and a disabled optional check never adds a reason
C11_MissingReasons ==
    \A i \in 1..Len(all_df) :
        LET r == all_df[i]
        IN /\ (Absent(r.trailingPE) /\ Absent(r.forwardPE))
                => PeReasons(r, screen)
                     = MissingReasons("missing PE (trailing/forward)")
           /\ IF screen.require_positive_profit_margin
              THEN Absent(r.profitMargins)
                     => MarginReasons(r, screen)
                          = MissingReasons("missing profitMargins")
              ELSE MarginReasons(r, screen) = <<>>
           /\ IF ~IsNone(screen.debt_to_equity_max)
              THEN Absent(r.debtToEquity)
                     => DebtReasons(r, screen)
                          = MissingReasons("missing debtToEquity")
              ELSE DebtReasons(r, screen) = <<>>
           /\ IF ~IsNone(screen.min_return_on_equity)
              THEN Absent(r.returnOnEquity)
                     => RoeReasons(r, screen)
                          = MissingReasons("missing returnOnEquity")
              ELSE RoeReasons(r, screen) = <<>>
           /\ IF r.sleeve \in DOMAIN SLEEVE_RULES
              THEN Absent(r.beta)
                     => BetaReasons(r, screen)
                          = MissingReasons("missing beta")
              ELSE BetaReasons(r, screen) = <<>>

\* C12: a row whose P/E used (trailing when present, else forward) is present
\* has a P/E reason exactly when that P/E is below cfg.pe_min or above the
\* effective ceiling, the sleeve's max_pe when the sleeve defines one and
\* cfg.pe_max otherwise; the reasons are "PE<min" and "PE>ceiling"
C12_PeBounds ==
    \A i \in 1..Len(all_df) :
        LET r == all_df[i]
            pe == r.pe_used
        IN ~Absent(pe)
             => PeReasons(r, screen) =
                  (IF LT(pe, screen.pe_min)
                   THEN <<"PE<" \o FmtFloat(screen.pe_min)>> ELSE <<>>)
                  \o (IF GT(pe, PeCeiling(r))
                      THEN <<"PE>" \o FmtPeMax(r.sleeve, screen)>>
                      ELSE <<>>)

\* the global default weights of score_row
DefaultWeights ==
    [w_pe |-> Num(10, 10), w_quality |-> Num(7, 10), w_balance |-> Num(5, 10),
     w_risk |-> Num(5, 10), w_div |-> Num(1, 10)]

\* the score of a row under the weights w
ScoreUnder(r, w) ==
    LET pe == PeUsed(r)
        QTerm(x) == IF GT(x, Zero)
                    THEN Mul(Mul(w.w_quality, Mul(Int2(5), x)), Num(2, 10))
                    ELSE Zero
        value ==
            Add(Add(IF GT(pe, Zero)
                    THEN Mul(Mul(w.w_pe, Div(Int2(50), pe)), Num(4, 10))
                    ELSE Zero,
                    PbTerm(r)),
                IF GT(r.dividendYield, Zero)
                THEN Mul(Mul(w.w_div, Mul(Int2(100), r.dividendYield)),
                         Num(4, 10))
                ELSE Zero)
        momentum == Add(Add(MomentumTerm(r.return_3m, 10),
                            MomentumTerm(r.return_6m, 20)),
                        MomentumTerm(r.proximity_52w, 20))
        quality == Add(Add(QTerm(r.returnOnEquity), QTerm(r.profitMargins)),
                       GrowthTerm(r))
        risk ==
            Add(IF GT(r.beta, Zero)
                THEN Mul(Mul(w.w_risk, Div(Int2(2), r.beta)), Num(1, 10))
                ELSE Num(-1, 10),
                IF GE(r.debtToEquity, Zero)
                THEN Mul(Mul(w.w_balance,
                             Div(Int2(5), Add(Int2(1), r.debtToEquity))),
                         Num(1, 10))
                ELSE Zero)
    IN Add(Add(Add(value, momentum), quality), risk)

\* C13: a row whose sleeve has no entry in the rule table is screened with
\* cfg.pe_max as its P/E ceiling and with no beta check, and is scored with
\* the default weights w_pe 1.0, w_quality 0.7, w_balance 0.5, w_risk 0.5,
\* w_div 0.1
C13_UnruledDefaults ==
    \A i \in 1..Len(all_df) :
        LET r == all_df[i]
            above == "PE>" \o FmtFloat(screen.pe_max)
        IN r.sleeve \notin DOMAIN SLEEVE_RULES
             => /\ BetaReasons(r, screen) = <<>>
                /\ \A k \in 1..Len(PeReasons(r, screen)) :
                      PeReasons(r, screen)[k]
                          \in {"missing PE (trailing/forward)",
                               "PE<" \o FmtFloat(screen.pe_min), above}
                /\ IsNum(PeUsed(r))
                     => ((\E k \in 1..Len(PeReasons(r, screen)) :
                              PeReasons(r, screen)[k] = above)
                           <=> GT(PeUsed(r), screen.pe_max))
                /\ r.score = ScoreUnder(r, DefaultWeights)

\* a row of a sleeve without rules whose beta is above every sleeve ceiling
\* passed the screen and was scored from its P/E, quality, balance and beta
C13_Witness ==
    \E i \in 1..Len(all_df) :
        LET r == all_df[i]
        IN /\ r.sleeve \notin DOMAIN SLEEVE_RULES
           /\ GT(r.beta, Num(13, 10))
           /\ r.passes_screen
           /\ GT(PeTerm(r), Zero)
           /\ GT(DebtTerm(r), Zero)
           /\ GT(QualityTerm(r, r.returnOnEquity), Zero)
           /\ IsNum(r.score)

\* the picks a selected sleeve took from its ETF pool and from its stock pool
EtfPicks(sleeve) == SelectSeq(PicksOf(picks, sleeve), IsEtf)
StockPicks(sleeve) == SelectSeq(PicksOf(picks, sleeve), LAMBDA p : ~IsEtf(p))

\* the rows of a pool that passed screening
Passing(pool) == SelectSeq(pool, LAMBDA r : r.passes_screen)

\* what identifies a candidate in a pick and in a table row
Key(x) == <<x.ticker, x.score, x.passes_screen>>

Count(seq, key) == Len(SelectSeq(seq, LAMBDA x : Key(x) = key))

Min(a, b) == IF a < b THEN a ELSE b

\* x has the better score: strictly higher, or a number against a NaN
Better(x, y) ==
    \/ GT(x.score, y.score)
    \/ IsNum(x.score) /\ IsNaN(y.score)

\* ps are the top target rows of pool by descending score: as many as the
\* target or the pool allows, each a row of the pool, listed best first, and
\* no row left out has a better score than a row taken
TopOf(ps, pool, target) ==
    /\ Len(ps) = Min(target, Len(pool))
    /\ \A i \in 1..Len(ps) : Count(ps, Key(ps[i])) <= Count(pool, Key(ps[i]))
    /\ \A i \in 1..Len(ps), j \in 1..Len(ps) :
          i < j => ~Better(ps[j], ps[i])
    /\ \A k \in 1..Len(pool) :
          Count(ps, Key(pool[k])) < Count(pool, Key(pool[k]))
              => \A i \in 1..Len(ps) : ~Better(pool[k], ps[i])

\* C14: a pool with fewer passing candidates than its target gives the top
\* target candidates of the entire pool by descending score, passing or
\* failing, and all of the pool when the pool is smaller than the target
C14_FallbackTakesTopOfPool ==
    \A s \in Selected :
        /\ Len(Passing(EtfPool(all_df, s))) < target_etfs
              => TopOf(EtfPicks(s), EtfPool(all_df, s), target_etfs)
        /\ Len(Passing(StockPool(all_df, s))) < target_stocks
              => TopOf(StockPicks(s), StockPool(all_df, s), target_stocks)

\* a pool larger than its target with too few passing rows: a failing row was
\* picked and a passing row with a lower score was left out
C14_Witness ==
    \E s \in Selected :
        LET pool == StockPool(all_df, s)
        IN /\ Len(pool) > target_stocks
           /\ Len(Passing(pool)) < target_stocks
           /\ Len(StockPicks(s)) = target_stocks
           /\ \E i \in 1..Len(StockPicks(s)) : ~StockPicks(s)[i].passes_screen
           /\ \E k \in 1..Len(pool) :
                /\ pool[k].passes_screen
                /\ Count(StockPicks(s), Key(pool[k])) = 0

\* C15: a pool with at least its target of passing candidates gives exactly
\* target picks, every one of them passing, and no passing candidate left out
\* has a strictly higher score than a pick
C15_PassingTakesTopPassing ==
    \A s \in Selected :
        /\ Len(Passing(EtfPool(all_df, s))) >= target_etfs
              => /\ Len(EtfPicks(s)) = target_etfs
                 /\ \A i \in 1..Len(EtfPicks(s)) : EtfPicks(s)[i].passes_screen
                 /\ TopOf(EtfPicks(s), Passing(EtfPool(all_df, s)),
                          target_etfs)
        /\ Len(Passing(StockPool(all_df, s))) >= target_stocks
              => /\ Len(StockPicks(s)) = target_stocks
                 /\ \A i \in 1..Len(StockPicks(s)) :
                       StockPicks(s)[i].passes_screen
                 /\ TopOf(StockPicks(s), Passing(StockPool(all_df, s)),
                          target_stocks)

\* a pool with more passing rows than its target: a passing row with a
\* strictly lower score than every pick was left out
C15_Witness ==
    \E s \in Selected :
        LET pool == EtfPool(all_df, s)
        IN /\ Len(Passing(pool)) > target_etfs
           /\ Len(EtfPicks(s)) = target_etfs
           /\ \E k \in 1..Len(pool) :
                /\ pool[k].passes_screen
                /\ \A i \in 1..Len(EtfPicks(s)) :
                      GT(EtfPicks(s)[i].score, pool[k].score)

\* C16: a pool is never backfilled from the other: when a pool has fewer
\* members than its target its picks are exactly its members, and the other
\* pool gives no more than its own target
C16_NoCrossPoolBackfill ==
    \A s \in Selected :
        /\ Len(EtfPool(all_df, s)) < target_etfs
              => /\ Len(EtfPicks(s)) = Len(EtfPool(all_df, s))
                 /\ \A k \in 1..Len(EtfPool(all_df, s)) :
                       Count(EtfPicks(s), Key(EtfPool(all_df, s)[k]))
                         = Count(EtfPool(all_df, s), Key(EtfPool(all_df, s)[k]))
                 /\ Len(StockPicks(s)) <= target_stocks
        /\ Len(StockPool(all_df, s)) < target_stocks
              => /\ Len(StockPicks(s)) = Len(StockPool(all_df, s))
                 /\ \A k \in 1..Len(StockPool(all_df, s)) :
                       Count(StockPicks(s), Key(StockPool(all_df, s)[k]))
                         = Count(StockPool(all_df, s),
                                 Key(StockPool(all_df, s)[k]))
                 /\ Len(EtfPicks(s)) <= target_etfs

\* a sleeve short of ETFs with stocks to spare: every ETF was picked and the
\* stock pool still gave its target only
C16_Witness ==
    \E s \in Selected :
        /\ Len(EtfPool(all_df, s)) = target_etfs - 1
        /\ Len(StockPool(all_df, s)) > target_stocks
        /\ Len(EtfPicks(s)) = target_etfs - 1
        /\ Len(StockPicks(s)) = target_stocks

\* C17: each pool of a sleeve gives at most half of the pick count configured
\* for the sleeve, so the sleeve has at most its configured count of picks
\* (configured for 4: at most 2 ETFs and 2 stocks)
C17_AtMostHalfPerPool ==
    \A s \in Selected :
        s \in DOMAIN picks_per_sleeve
            => /\ 2 * Len(EtfPicks(s)) <= picks_per_sleeve[s]
               /\ 2 * Len(StockPicks(s)) <= picks_per_sleeve[s]
               /\ Len(PicksOf(picks, s)) <= picks_per_sleeve[s]

\* x == y on floats: two numbers of the same value (NaN equals nothing)
FloatEq(x, y) == IsNum(x) /\ IsNum(y) /\ x = y

\* C18: all picks of a sleeve carry the same target weight, the sleeve's weight
\* divided by the number of picks of the sleeve, whatever their scores and
\* pools, before the renormalisation and after it
C18_EqualWeightInSleeve ==
    /\ \A s \in Selected :
          \A i \in 1..Len(PicksOf(picks, s)) :
              FloatEq(PicksOf(picks, s)[i].target_weight,
                      Div(WeightOf(s), Int2(Len(PicksOf(picks, s)))))
    /\ pc = "done"
          => \A i \in 1..Len(picks_df), j \in 1..Len(picks_df) :
                picks_df[i].sleeve = picks_df[j].sleeve
                    => FloatEq(picks_df[i].target_weight,
                               picks_df[j].target_weight)

\* build_portfolio from the collected rows on: the universe table before its
\* final sort, the picks of sleeve_weights[k..] and the returned picks table
TableOf(rs) ==
    LET df == DataFrame(rs)
    IN [i \in 1..Len(df) |-> Scored(df[i], screen)]

RECURSIVE PicksFrom(_, _)
PicksFrom(df, k) ==
    IF k > Len(sleeve_weights) THEN <<>>
    ELSE LET sleeve == sleeve_weights[k].sleeve
             sleeve_picks == SleevePicks(df, sleeve)
             per_pick_weight ==
                 PerPickWeight(sleeve_weights[k].w, Len(sleeve_picks))
         IN [i \in 1..Len(sleeve_picks) |->
                Pick(sleeve_picks[i], sleeve, per_pick_weight)]
            \o PicksFrom(df, k + 1)

ReturnedPicks(df) ==
    LET ps == PicksFrom(df, 1)
        total == SumWeights(ps)
    IN SortPicks([i \in 1..Len(ps) |->
                    [ps[i] EXCEPT !.target_weight = DivideBy(@, total)]])

\* the rows collected in another order within each sleeve: each sleeve's rows
\* reversed, or two neighbouring rows of one sleeve exchanged
Reverse(seq) == [i \in 1..Len(seq) |-> seq[Len(seq) + 1 - i]]

ReverseInSleeves(rs) ==
    Reverse(SelectSeq(rs, LAMBDA r : r.sleeve = UniverseOrder[1]))
    \o Reverse(SelectSeq(rs, LAMBDA r : r.sleeve = UniverseOrder[2]))
    \o Reverse(SelectSeq(rs, LAMBDA r : r.sleeve = UniverseOrder[3]))

Exchange(rs, k) ==
    [i \in 1..Len(rs) |->
        IF i = k THEN rs[k + 1] ELSE IF i = k + 1 THEN rs[k] ELSE rs[i]]

CollectionOrders(rs) ==
    {ReverseInSleeves(rs)}
    \cup {Exchange(rs, k) : k \in {j \in 1..(Len(rs) - 1) :
                                      rs[j].sleeve = rs[j + 1].sleeve}}

\* the picked tickers of a sleeve in a picks table
PickedTickers(ps, sleeve) ==
    {ps[i].ticker : i \in {j \in 1..Len(ps) : ps[j].sleeve = sleeve}}

\* a column of a table, row by row
Column(df, f) == [i \in 1..Len(df) |-> df[i][f]]

\* C20 as stated: collecting the rows of a sleeve in another order changes
\* neither the set of picks of any sleeve, nor their weights, nor the order of
\* the rows of the two returned tables
C20_OrderIndependent ==
    pc = "done"
        => \A rs \in CollectionOrders(rows) :
              LET df == TableOf(rs)
                  ps == ReturnedPicks(df)
              IN /\ \A s \in Selected :
                       PickedTickers(ps, s) = PickedTickers(picks_df, s)
                 /\ Column(ps, "target_weight")
                       = Column(picks_df, "target_weight")
                 /\ Column(ps, "ticker") = Column(picks_df, "ticker")
                 /\ Column(SortTable(df), "ticker") = Column(all_df, "ticker")

\* the scores of the rows of a sleeve are numbers and pairwise distinct
DistinctScores(df, sleeve) ==
    \A i \in 1..Len(df), j \in 1..Len(df) :
        (df[i].sleeve = sleeve /\ df[j].sleeve = sleeve)
            => /\ IsNum(df[i].score)
               /\ i # j => df[i].score # df[j].score

\* C20 as amended: collecting the rows of a sleeve in another order changes
\* neither the sleeve, weight and score of any row of the returned picks
\* table nor the sleeve and score of any row of the returned universe table;
\* the tickers of a sleeve whose scores are distinct numbers are the same in
\* both tables as well
C20_SameUpToTies ==
    pc = "done"
        => \A rs \in CollectionOrders(rows) :
              LET df == TableOf(rs)
                  ps == ReturnedPicks(df)
                  tb == SortTable(df)
              IN /\ Column(ps, "sleeve") = Column(picks_df, "sleeve")
                 /\ Column(ps, "target_weight")
                       = Column(picks_df, "target_weight")
                 /\ Column(ps, "score") = Column(picks_df, "score")
                 /\ Column(tb, "sleeve") = Column(all_df, "sleeve")
                 /\ Column(tb, "score") = Column(all_df, "score")
                 /\ \A s \in Sleeves :
                       DistinctScores(all_df, s)
                          => /\ Column(PicksOf(ps, s), "ticker")
                                  = Column(PicksOf(picks_df, s), "ticker")
                             /\ Column(SleeveDf(tb, s), "ticker")
                                  = Column(SleeveDf(all_df, s), "ticker")

\* a run has returned whose picks another collection order would change: two
\* rows of a pool tie at the cut-off
C20_Witness ==
    /\ pc = "done"
    /\ \E rs \in CollectionOrders(rows), s \in Selected :
          PickedTickers(ReturnedPicks(TableOf(rs)), s)
              # PickedTickers(picks_df, s)

\* C21: the universe table holds one row per (sleeve, ticker) pair, and no
\* ticker appears twice among the picks of one sleeve, also when the sleeve's
\* ticker list names a ticker twice
C21_OneRowPerPair ==
    /\ \A i \in 1..Len(all_df), j \in 1..Len(all_df) :
          (i # j /\ all_df[i].sleeve = all_df[j].sleeve)
              => all_df[i].ticker # all_df[j].ticker
    /\ \A i \in 1..Len(picks), j \in 1..Len(picks) :
          (i # j /\ picks[i].sleeve = picks[j].sleeve)
              => picks[i].ticker # picks[j].ticker

\* the info keys that are columns of a snapshot
SnapshotKeys == InfoKeys \ {"fiftyTwoWeekHigh"}

\* the provider answers a collected row can have come from
AnswersOf(row) ==
    {a \in Answers :
        /\ ~a.info_raises
        /\ \A f \in MetricFields :
              row[f] = fetch_metrics(row.ticker, a)[f]}

\* the provider does not supply a value: no key, None, NaN, text that is not
\* a number
NotSupplied(raw) == raw.t \in {"none", "nan", "nanstr", "badstr"}

\* the provider supplies the number 0
SuppliedZero(raw) == raw.t \in {"num", "str"} /\ raw.n = 0

\* C22: a metric the provider does not supply (no key, None, NaN, text that
\* cannot be read) is absent in the snapshot and in the universe table and
\* never 0, a supplied 0 stays 0, and a row with an absent field is not
\* screened or scored as a 0 would be: no "PE<min", "profitMargins<=0" or
\* "returnOnEquity<floor" reason and no debt-to-equity term.  A snapshot is
\* compared with the provider's answer when it is collected, as the last
\* row of "rows".
C22_AbsentIsNotZero ==
    /\ (pc = "fetch" /\ rows # <<>>)
          => LET row == rows[Len(rows)]
             IN \A a \in AnswersOf(row), f \in SnapshotKeys :
                   /\ NotSupplied(Get(a.info, f))
                         => (Absent(row[f]) /\ row[f] # Zero)
                   /\ SuppliedZero(Get(a.info, f)) => row[f] = Zero
    /\ pc = "select"
          => \A i \in 1..Len(rows), f \in MetricFields :
                /\ Absent(rows[i][f]) <=> Absent(all_df[i][f])
                /\ rows[i][f] = Zero <=> all_df[i][f] = Zero
    /\ \A i \in 1..Len(all_df) :
          LET r == all_df[i]
          IN /\ (Absent(r.trailingPE) /\ Absent(r.forwardPE))
                   => \A k \in 1..Len(PeReasons(r, screen)) :
                         PeReasons(r, screen)[k]
                             = "missing PE (trailing/forward)"
             /\ Absent(r.profitMargins)
                   => \A k \in 1..Len(MarginReasons(r, screen)) :
                         MarginReasons(r, screen)[k] = "missing profitMargins"
             /\ Absent(r.returnOnEquity)
                   => \A k \in 1..Len(RoeReasons(r, screen)) :
                         RoeReasons(r, screen)[k] = "missing returnOnEquity"
             /\ Absent(r.debtToEquity) => DebtTerm(r) = Zero

\* a collected row keeps a supplied beta of 0 as 0 while its NaN return on
\* equity and its unreadable price-to-book are absent, and in the table its
\* absent revenue growth sits in a column where another row holds a number
C22_Witness ==
    /\ pc = "select"
    /\ \E i \in 1..Len(rows), j \in 1..Len(rows) :
          /\ AnsJunk \in AnswersOf(rows[i])
          /\ rows[i].beta = Zero
          /\ IsNone(rows[i].returnOnEquity)
          /\ IsNone(rows[i].priceToBook)
          /\ IsNaN(all_df[i].revenueGrowth)
          /\ IsNum(all_df[j].revenueGrowth)

\* C23: no division is evaluated with a zero or negative denominator:
\* score_row divides by P/E, price-to-book and beta only when positive and by
\* 1 + debt-to-equity only when debt-to-equity is not negative, fetch_metrics
\* divides by a past price only when it is positive, the weight of a sleeve
\* is never divided by a pick count of zero and the weights are never divided
\* by a total of zero
C23_NoBadDenominator ==
    /\ \A i \in 1..Len(all_df) :
          LET r == all_df[i]
          IN /\ PeTerm(r) # Zero => GT(PeUsed(r), Zero)
             /\ PbTerm(r) # Zero => GT(r.priceToBook, Zero)
             /\ BetaTerm(r) # Num(-1, 10) => GT(r.beta, Zero)
             /\ DebtTerm(r) # Zero => GE(r.debtToEquity, Zero)
    /\ (pc = "fetch" /\ rows # <<>>)
          => LET row == rows[Len(rows)]
             IN \A a \in AnswersOf(row) :
                   /\ ~IsNone(row.return_6m) => GT(a.hist.first, Zero)
                   /\ ~IsNone(row.return_3m)
                         => GT(IF a.hist.len >= 63 THEN a.hist.m63
                               ELSE a.hist.first, Zero)
    /\ ~(pc = "error" /\ error.kind = "ZeroDivisionError")
    /\ pc = "done" => (SumWeights(picks) # Zero /\ IsNum(SumWeights(picks)))

\* a term of the score formula: included when its input is present and
\* within the term's domain, zero otherwise
TermIf(included, value) == IF included THEN value ELSE Zero

Present(x) == ~Absent(x)

\* the score formula of C24 for a table row, with the weights of its sleeve
\* and the P/E used (trailing when present, else forward)
FormulaScore(r) ==
    LET w_pe == RuleGet(r.sleeve, "w_pe", DefaultWeights.w_pe)
        w_quality == RuleGet(r.sleeve, "w_quality", DefaultWeights.w_quality)
        w_balance == RuleGet(r.sleeve, "w_balance", DefaultWeights.w_balance)
        w_risk == RuleGet(r.sleeve, "w_risk", DefaultWeights.w_risk)
        w_div == RuleGet(r.sleeve, "w_div", DefaultWeights.w_div)
        pe == r.pe_used
        value ==
            Add(Add(TermIf(Present(pe) /\ GT(pe, Zero),
                           Mul(w_pe, Div(Int2(50), pe))),
                    TermIf(Present(r.priceToBook) /\ GT(r.priceToBook, Zero),
                           Div(Int2(10), r.priceToBook))),
                TermIf(Present(r.dividendYield) /\ GT(r.dividendYield, Zero),
                       Mul(w_div, Mul(Int2(100), r.dividendYield))))
        momentum ==
            Add(Add(TermIf(Present(r.return_3m), Div(r.return_3m, Int2(10))),
                    TermIf(Present(r.return_6m), Div(r.return_6m, Int2(20)))),
                TermIf(Present(r.proximity_52w),
                       Div(r.proximity_52w, Int2(20))))
        quality ==
            Add(Add(TermIf(Present(r.returnOnEquity)
                             /\ GT(r.returnOnEquity, Zero),
                           Mul(w_quality, Mul(Int2(5), r.returnOnEquity))),
                    TermIf(Present(r.profitMargins)
                             /\ GT(r.profitMargins, Zero),
                           Mul(w_quality, Mul(Int2(5), r.profitMargins)))),
                TermIf(Present(r.revenueGrowth) /\ GT(r.revenueGrowth, Zero),
                       Mul(Int2(10), r.revenueGrowth)))
        risk ==
            Add(TermIf(Present(r.beta) /\ GT(r.beta, Zero),
                       Mul(w_risk, Div(Int2(2), r.beta))),
                TermIf(Present(r.debtToEquity) /\ GE(r.debtToEquity, Zero),
                       Mul(w_balance,
                           Div(Int2(5), Add(Int2(1), r.debtToEquity)))))
        penalty == IF Present(r.beta) /\ GT(r.beta, Zero) THEN Zero
                   ELSE Num(-1, 10)
    IN Add(Add(Add(Add(Mul(Num(4, 10), value), Mul(Num(3, 10), momentum)),
                   Mul(Num(2, 10), quality)),
               Mul(Num(1, 10), risk)),
           penalty)

\* C24: the score of every row is the weighted sum 0.4 value + 0.3 momentum
\* + 0.2 quality + 0.1 risk of the terms whose input is present (and
\* positive, or not negative for debt-to-equity), with a flat -0.1 in place
\* of the beta term when beta is absent or not positive
C24_ScoreFormula ==
    \A i \in 1..Len(all_df) : all_df[i].score = FormulaScore(all_df[i])

\* the inputs of score_row other than beta, and the term each contributes
ScoreInputs == {"pe", "priceToBook", "dividendYield", "return_3m",
                "return_6m", "proximity_52w", "returnOnEquity",
                "profitMargins", "revenueGrowth", "debtToEquity"}

TermOf(r, f) ==
    CASE f = "pe" -> PeTerm(r)
      [] f = "priceToBook" -> PbTerm(r)
      [] f = "dividendYield" -> DivTerm(r)
      [] f = "return_3m" -> MomentumTerm(r.return_3m, 10)
      [] f = "return_6m" -> MomentumTerm(r.return_6m, 20)
      [] f = "proximity_52w" -> MomentumTerm(r.proximity_52w, 20)
      [] f = "returnOnEquity" -> QualityTerm(r, r.returnOnEquity)
      [] f = "profitMargins" -> QualityTerm(r, r.profitMargins)
      [] f = "revenueGrowth" -> GrowthTerm(r)
      [] OTHER -> DebtTerm(r)

\* the absent value of column f in row i of the table when the provider
\* does not supply it: NaN when another row holds a value in the column,
\* None otherwise
AbsentIn(i, f) ==
    IF \E j \in 1..Len(rows) : j # i /\ ~IsNone(rows[j][f]) THEN NaN ELSE None

\* row i of the table with one input of score_row made absent; the P/E is
\* absent when both the trailing and the forward P/E are
MadeAbsent(i, f) ==
    IF f = "pe"
    THEN [all_df[i] EXCEPT !.trailingPE = AbsentIn(i, "trailingPE"),
                           !.forwardPE = AbsentIn(i, "forwardPE")]
    ELSE [all_df[i] EXCEPT ![f] = AbsentIn(i, f)]

\* C25: making one input of score_row other than beta absent in a row of
\* the table changes the row's score by exactly minus that input's term, and
\* a negative return contributes a negative term
C25_AbsentContributesZero ==
    pc = "select"
        => \A i \in 1..Len(all_df) :
              /\ \A f \in ScoreInputs :
                    score_row(MadeAbsent(i, f))
                        = Sub(score_row(all_df[i]), TermOf(all_df[i], f))
              /\ \A f \in {"return_3m", "return_6m"} :
                    LT(all_df[i][f], Zero) => LT(TermOf(all_df[i], f), Zero)

\* the tickers of a sequence of rows
Tickers(df) == {df[i].ticker : i \in 1..Len(df)}

\* rows i and j of the scored table are two candidates of one pool of sleeve
\* s with equal scores and the same screening result, i listed before j
TiedInPool(s, i, j) ==
    /\ i < j
    /\ all_df[i].sleeve = s /\ all_df[j].sleeve = s
    /\ IsEtf(all_df[i]) = IsEtf(all_df[j])
    /\ all_df[i].ticker # all_df[j].ticker
    /\ all_df[i].passes_screen = all_df[j].passes_screen
    /\ FloatEq(all_df[i].score, all_df[j].score)

ReasonsOf(r) ==
    {ScreenReasons(r, screen)[k] : k \in 1..Len(ScreenReasons(r, screen))}

\* the beta ceiling of a row's sleeve, None for a sleeve without rules
BetaCeiling(r) ==
    IF r.sleeve \in RuledSleeves THEN SLEEVE_RULES[r.sleeve].max_beta ELSE None

\* the row's P/E sits on the floor or on the ceiling
PeOnFloor(r) == FloatEq(PeUsed(r), screen.pe_min)
PeOnCeiling(r) == FloatEq(PeUsed(r), PeCeiling(r))

\* the row's debt-to-equity, ROE or beta sits on its enabled threshold
DebtOnCeiling(r) == FloatEq(r.debtToEquity, screen.debt_to_equity_max)
RoeOnFloor(r) == FloatEq(r.returnOnEquity, screen.min_return_on_equity)
BetaOnCeiling(r) == FloatEq(r.beta, BetaCeiling(r))

\* the row's profit margin is exactly 0 and the margin check is enabled
ZeroMargin(r) ==
    screen.require_positive_profit_margin /\ FloatEq(r.profitMargins, Zero)

\* C27: a value equal to its threshold is accepted (P/E on pe_min or on the
\* effective ceiling, beta on max_beta, debt-to-equity on its ceiling, ROE on
\* its floor add no reason), a profit margin of exactly 0 is rejected when the
\* margin check is enabled, and the row's columns carry exactly these reasons.
C27_InclusiveThresholds ==
    pc = "select"
        => \A i \in 1..Len(all_df) :
              LET r == all_df[i]
              IN /\ r.fail_reasons = Join(ScreenReasons(r, screen))
                 /\ r.passes_screen = (ReasonsOf(r) = {})
                 /\ PeOnFloor(r)
                       => ("PE<" \o FmtFloat(screen.pe_min)) \notin ReasonsOf(r)
                 /\ PeOnCeiling(r)
                       => ("PE>" \o FmtPeMax(r.sleeve, screen))
                              \notin ReasonsOf(r)
                 /\ BetaOnCeiling(r)
                       => ("beta>" \o FmtFloat(BetaCeiling(r)))
                              \notin ReasonsOf(r)
                 /\ DebtOnCeiling(r)
                       => ("debtToEquity>"
                              \o FmtFloat(screen.debt_to_equity_max))
                              \notin ReasonsOf(r)
                 /\ RoeOnFloor(r)
                       => ("returnOnEquity<"
                              \o FmtFloat(screen.min_return_on_equity))
                              \notin ReasonsOf(r)
                 /\ ZeroMargin(r)
                       => /\ "profitMargins<=0" \in ReasonsOf(r)
                          /\ ~r.passes_screen

\* a table with a row that sits on its P/E ceiling, its debt ceiling and its
\* ROE floor and passes, and a row rejected for a profit margin of exactly 0
C27_Witness ==
    /\ pc = "select"
    /\ \E i, j \in 1..Len(all_df) :
          /\ PeOnCeiling(all_df[i]) /\ DebtOnCeiling(all_df[i])
          /\ RoeOnFloor(all_df[i]) /\ all_df[i].passes_screen
          /\ ZeroMargin(all_df[j]) /\ ~all_df[j].passes_screen

\* picks ps of a pool hold row f that failed screening while the pool's
\* passing row k is not among them
FailedOverPassed(ps, pool, f, k) ==
    /\ ~ps[f].passes_screen
    /\ pool[k].passes_screen
    /\ Count(ps, Key(pool[k])) = 0

\* C28 as stated: in no pool is a failing candidate picked while a passing
\* candidate of that pool is left unpicked
C28_PassPreferred ==
    \A s \in Selected :
        /\ \A f \in 1..Len(EtfPicks(s)), k \in 1..Len(EtfPool(all_df, s)) :
              ~FailedOverPassed(EtfPicks(s), EtfPool(all_df, s), f, k)
        /\ \A f \in 1..Len(StockPicks(s)), k \in 1..Len(StockPool(all_df, s)) :
              ~FailedOverPassed(StockPicks(s), StockPool(all_df, s), f, k)

\* in picks ps of a pool, a failing row is picked only when fewer than target
\* rows of the pool pass, and then no passing row left out has a better score
PassPreferredUnlessFallback(ps, pool, target) ==
    /\ Len(Passing(pool)) >= target
          => \A f \in 1..Len(ps) : ps[f].passes_screen
    /\ \A f \in 1..Len(ps), k \in 1..Len(pool) :
          FailedOverPassed(ps, pool, f, k)
              => /\ Len(Passing(pool)) < target
                 /\ ~Better(pool[k], ps[f])

\* C28 as amended: a failing candidate is picked only from a pool with fewer
\* passing candidates than its target, and a passing candidate left unpicked
\* there never has a better score than a failing candidate that was picked.
C28_PassPreferredUnlessFallback ==
    \A s \in Selected :
        /\ PassPreferredUnlessFallback(EtfPicks(s), EtfPool(all_df, s),
                                       target_etfs)
        /\ PassPreferredUnlessFallback(StockPicks(s), StockPool(all_df, s),
                                       target_stocks)

\* the fallback at work: a failing stock was picked ahead of a passing stock
\* with a worse score, which was left out
C28_Witness ==
    \E s \in Selected :
        \E f \in 1..Len(StockPicks(s)), k \in 1..Len(StockPool(all_df, s)) :
            /\ FailedOverPassed(StockPicks(s), StockPool(all_df, s), f, k)
            /\ Better(StockPicks(s)[f], StockPool(all_df, s)[k])

\* sum(sleeve_weights.values())
RECURSIVE SumConfigured(_)
SumConfigured(items) ==
    IF Len(items) = 0 THEN Zero
    ELSE Add(Head(items).w, SumConfigured(Tail(items)))

\* the weight a returned pick had before the renormalisation
PreWeight(p) ==
    picks[CHOOSE k \in 1..Len(picks) :
             picks[k].sleeve = p.sleeve /\ picks[k].ticker = p.ticker]
        .target_weight

\* C29: in the returned picks each sleeve's target weights sum to the sleeve's
\* configured weight divided by the sum of all configured weights, and any two
\* picks' weights stand in the same ratio as before the renormalisation
\* (compared by cross-multiplication).
C29_ProportionsPreserved ==
    pc = "done"
        => /\ \A k \in 1..Len(sleeve_weights) :
                 LET s == sleeve_weights[k].sleeve
                 IN /\ SumConfigured(sleeve_weights) # Zero
                    /\ FloatEq(SumWeights(PicksOf(picks_df, s)),
                               Div(sleeve_weights[k].w,
                                   SumConfigured(sleeve_weights)))
           /\ \A i, j \in 1..Len(picks_df) :
                 FloatEq(Mul(PreWeight(picks_df[i]), picks_df[j].target_weight),
                         Mul(PreWeight(picks_df[j]), picks_df[i].target_weight))


\* the external steps of a complete run, in the order main takes them
FullRun ==
    <<"selection", "generate", "put_object", "uploaded", "send_email", "sent">>

\* the runner has started the step
Started(e) == \E k \in 1..Len(log) : log[k] = e

\* the selection failed, or it left no selected_portfolio CSV
NothingToPublish ==
    \/ returncode \notin {Running, 0}
    \/ returncode = 0 /\ portfolio_files = {} /\ step # "find"

\* C30: the runner's steps happen in the order selection, dashboard
\* generation, upload, email; generation and upload start only after the
\* selection returned code 0; the email is sent only after the upload
\* returned; a failed selection or a missing CSV ends the process with status
\* 1, nothing uploaded and no email sent; once the email step is reached the
\* exit status is 0 whether or not the email was sent.
C30_OrderedAndGated ==
    /\ Len(log) <= Len(FullRun)
    /\ \A k \in 1..Len(log) : log[k] = FullRun[k]
    /\ (Started("generate") \/ Started("put_object"))
          => /\ returncode = 0
             /\ log[1] = "selection"
    /\ Started("send_email")
          => \E k \in 1..Len(log) : log[k] = "uploaded" /\ log[k + 1] = "send_email"
    /\ NothingToPublish
          => /\ step = "exited"
             /\ exit_status = 1
             /\ ~Started("generate")
             /\ ~Started("put_object")
             /\ ~Started("send_email")
    /\ (step = "exited" /\ Started("send_email")) => exit_status = 0
    /\ exit_status = 0 => Started("uploaded")

\* the process has exited with status 0 although the email was not sent
C30_Witness ==
    /\ step = "exited"
    /\ exit_status = 0
    /\ Started("send_email")
    /\ ~Started("sent")

====
